---------------------------- MODULE Spec2Model ----------------------------
(***************************************************************************)
(* Model of the LinkedIn command center: the campaign pipeline             *)
(* (app/agents/orchestrator.py and the three agents), the event fan-out   *)
(* (app/services/websocket_manager.py) and the publish client             *)
(* (app/agents/publisher_agent.py).                                       *)
(*                                                                         *)
(* The program is asyncio code: a coroutine runs without interruption     *)
(* from one await that really suspends to the next.  Every action below   *)
(* is one such stretch of one task; the other tasks (observer handlers,   *)
(* the external services) take their steps in between.                    *)
(***************************************************************************)
EXTENDS Integers, Sequences, FiniteSets, TLC

(* ------------------------------ bounds ------------------------------- *)

\* Number of observer connections (WebSocket objects) that ever exist.
NumWS == 2

\* Number of observer connections that are severed.
MaxDrops == 1

\* Longest platform list of a request (the batch size of Draft and Publish).
MaxPlatforms == 2

\* Where the event bus is followed on its own: the number of observer
\* connections that ever exist, and of those that are severed or stall.
NumObservers == 3
MaxSevered == 2
\* The events one campaign publishes, where they are counted.
MaxEvents == 2

\* Number of access tokens that ever exist, the configured one included,
\* where the publish client is followed on its own.
MaxTokens == 3

\* The bodies tried are up to Slack characters shorter than the text limit,
\* and the hashtag lists have up to MaxTags entries.
Slack == 8
MaxTags == 2

(* ------------------------- program constants ------------------------- *)

\* _publish_linkedin(self, piece, max_retries: int = 3)
max_retries == 3

\* text = text[:3000]
TextLimit == 3000

\* test_content_truncation: long_content = "A" * 3500
LongBody == 3500

\* What a publish request is answered with: an HTTP status, or 0 when the
\* request raises httpx.HTTPError (no response).
Statuses == {200, 201, 202, 204, 401, 403, 500, 0}

\* An HTTP success status, as the platform means it (2xx).
Is2xx(s) == s \in {200, 201, 202, 204}

Campaigns == {"c1", "c2"}

\* The campaign whose pipeline is run.
Run == "c1"

WS == 1 .. NumWS

Observers == 1 .. NumObservers

Range(s) == {s[k] : k \in DOMAIN s}

(* --------------------------- the variables --------------------------- *)

VARIABLES
  \* ConnectionManager
  active_connections, \* dict campaign_id -> list of WebSocket
  wsState,            \* per connection: "new", "open", "dropped", "closed"
  wsCampaign,         \* per connection: the campaign id of its URL
  bc,                 \* per campaign: the broadcast_event call in progress
  \* PublisherAgent and settings
  access_token,       \* self._access_token; 0 is the empty string
  refresh_token,      \* settings.LINKEDIN_REFRESH_TOKEN; 0 is the empty string
  client_id,          \* settings.LINKEDIN_CLIENT_ID is configured
  cached_user_urn,    \* self._cached_user_urn; 0 is None, n is the identity
                      \* the platform gave for access token n
  call,               \* per campaign: the _publish_linkedin call in progress
  \* run_campaign
  request,            \* the CampaignRequest: platforms and auto_publish
  pc,                 \* where run_campaign (or the stage it awaits) stands
  i,                  \* the loop index of the stage's for loop
  brief,              \* the brief trend_agent.run returned, "none" before
  content_pieces,     \* the list the writer builds and the publisher mutates
  events,             \* every AgentEvent handed to broadcast_event, in order
  result,             \* the CampaignResponse returned, "none" before
  trace,              \* what happened, for the properties (not program state)
  \* _publish_linkedin, the text it transmits
  piece,              \* the ContentPiece passed: content and hashtags
  payload,            \* payload["commentary"], once it is built
  \* ConnectionManager.disconnect, called twice
  unsub,              \* the calls made so far and what they did
  \* CampaignResponse, serialised and read back
  rt,                 \* the response, its JSON text, the store, the copy
  \* the events of one campaign, call after call
  feed                \* the broadcast_event calls and what each observer got

busVars  == <<active_connections, wsState, wsCampaign, bc>>
credVars == <<access_token, refresh_token, client_id, cached_user_urn>>
pipeVars == <<request, pc, i, brief, content_pieces, events, result, trace>>
\* The variables of the functions that are followed on their own.
auxVars  == <<piece, payload, unsub, rt, feed>>
vars     == <<busVars, credVars, call, pipeVars, auxVars>>

(* ------------------- ConnectionManager (the event bus) --------------- *)

\* list.remove(x): the list without the first occurrence of x.
Remove(s, x) ==
  LET k == CHOOSE k \in 1 .. Len(s) :
             s[k] = x /\ \A j \in 1 .. (k - 1) : s[j] # x
  IN  SubSeq(s, 1, k - 1) \o SubSeq(s, k + 1, Len(s))

\* del d[c]
DelKey(reg, c) == [x \in DOMAIN reg \ {c} |-> reg[x]]

\* ConnectionManager.connect, after websocket.accept() returned.
connect(reg, w, c) ==
  [x \in DOMAIN reg \cup {c} |->
     IF x = c
       THEN (IF c \in DOMAIN reg THEN reg[c] ELSE <<>>) \o <<w>>
       ELSE reg[x]]

\* Mutant of disconnect: the key of a list that became empty is kept.
disconnect_KeepKey(reg, w, c) ==
  IF c \notin DOMAIN reg
    THEN [reg |-> reg, raised |-> FALSE]
    ELSE IF w \notin Range(reg[c])
      THEN [reg |-> reg, raised |-> TRUE]
      ELSE [reg |-> [reg EXCEPT ![c] = Remove(reg[c], w)], raised |-> FALSE]

\* ConnectionManager.disconnect: the registry afterwards, and whether
\* list.remove raised ValueError (the connection is not in the list).
disconnect(reg, w, c) ==
  IF c \notin DOMAIN reg
    THEN [reg |-> reg, raised |-> FALSE]
    ELSE IF w \notin Range(reg[c])
      THEN [reg |-> reg, raised |-> TRUE]
      ELSE LET l == Remove(reg[c], w)
           IN  [reg    |-> IF l = <<>> THEN DelKey(reg, c)
                                       ELSE [reg EXCEPT ![c] = l],
                raised |-> FALSE]

\* for ws in dead: self.disconnect(ws, campaign_id) -- stops at the first
\* exception, which leaves broadcast_event.
RECURSIVE RemoveDead(_, _, _)
RemoveDead(reg, dead, c) ==
  IF dead = <<>>
    THEN [reg |-> reg, raised |-> FALSE]
    ELSE LET r == disconnect(reg, Head(dead), c)
         IN  IF r.raised THEN r ELSE RemoveDead(r.reg, Tail(dead), c)

\* No broadcast_event call in progress.  cur (the loop variable ws), idx
\* (the position of the list iterator) and dead are the call's locals.  The
\* rest records what the call did: subs0 is the list of the campaign when
\* the call was made, to the connections send_text was called with, in
\* order, got those for which it returned, and sends counts the send_text
\* calls.  The record is kept when the call has ended, until the caller is
\* resumed.
BcIdle ==
  [st |-> "idle", cur |-> 0, idx |-> 0, dead |-> <<>>, detached |-> FALSE,
   sends |-> 0, subs0 |-> <<>>, to |-> <<>>, got |-> {}]

\* Mutant of IterList: the loop goes over the connections of every
\* campaign.
IterList_Everyone(reg, b, c) ==
  IF b.detached \/ c \notin DOMAIN reg THEN <<>>
  ELSE LET d == CHOOSE d \in Campaigns : d # c
       IN  reg[c] \o (IF d \in DOMAIN reg THEN reg[d] ELSE <<>>)

\* The list object the for loop of broadcast_event iterates.  The iterator
\* holds the list it started on: when the campaign's key was deleted during
\* the loop (detached) that list is the emptied one, whatever list a later
\* connect put under the key.
IterList(reg, b, c) ==
  IF b.detached \/ c \notin DOMAIN reg THEN <<>> ELSE reg[c]

\* broadcast_event from the loop head to its next suspension: the iterator
\* yields the next connection and send_text is awaited, or the loop is over,
\* the dead connections are disconnected and the call returns or raises.
BroadcastStep(reg, b, c) ==
  LET l == IterList(reg, b, c)
  IN  IF b.idx < Len(l)
        THEN [reg |-> reg,
              bc  |-> [b EXCEPT !.st = "sending", !.cur = l[b.idx + 1],
                                !.idx = b.idx + 1, !.sends = b.sends + 1,
                                !.to = Append(b.to, l[b.idx + 1])]]
        ELSE LET r == RemoveDead(reg, b.dead, c)
             IN  [reg |-> r.reg,
                  bc  |-> [b EXCEPT
                             !.st = IF r.raised THEN "raised" ELSE "returned",
                             !.cur = 0, !.idx = 0, !.detached = FALSE]]

\* Mutant of BroadcastBegin: the list of the campaign is looked up as in a
\* defaultdict, which makes the key.
BroadcastBegin_MakeKey(reg, c) ==
  IF c \in DOMAIN reg
    THEN BroadcastStep(reg, [BcIdle EXCEPT !.subs0 = reg[c]], c)
    ELSE [reg |-> [x \in DOMAIN reg \cup {c} |->
                     IF x = c THEN <<>> ELSE reg[x]],
          bc  |-> [BcIdle EXCEPT !.st = "returned"]]

\* broadcast_event(event) up to its first suspension.
BroadcastBegin(reg, c) ==
  IF c \in DOMAIN reg
    THEN BroadcastStep(reg, [BcIdle EXCEPT !.subs0 = reg[c]], c)
    ELSE [reg |-> reg, bc |-> [BcIdle EXCEPT !.st = "returned"]]

\* await ws.send_text(payload) is over: it returned when the connection is
\* open and raised otherwise (except Exception: dead.append(ws)).
AfterSend(b, sent) ==
  IF sent THEN [b EXCEPT !.got = b.got \cup {b.cur}]
          ELSE [b EXCEPT !.dead = Append(b.dead, b.cur)]

(* --------------------- PublisherAgent (publish client) --------------- *)

\* No _publish_linkedin call in progress.  attempt, refreshed (the local
\* token_refreshed), author (payload["author"]) and hdrTok (the token in
\* headers["Authorization"]) are the call's locals; reqTok is the credential
\* the request in flight carries.  The rest records what the call did and
\* was answered: posts counts its publish requests, accepted says that one
\* of them was answered with a 2xx, refresh is how _refresh_token ended
\* ("none": not called), and after is the answer to the first publish
\* request that followed a successful refresh ("none": no such request yet,
\* "created": 200 or 201, "accepted": another 2xx, "other": anything else).
\* last is the class of the answer to the latest publish request, accepts
\* counts the publish requests answered with a 2xx, refreshes the calls of
\* _refresh_token, urnFailed says that _get_user_urn returned None, and
\* retryOnly that every publish request so far was answered with neither a
\* 2xx nor 401 nor 403.
CallIdle ==
  [st |-> "idle", attempt |-> 0, refreshed |-> FALSE, author |-> 0,
   hdrTok |-> 0, reqTok |-> 0, result |-> FALSE,
   posts |-> 0, accepted |-> FALSE, refresh |-> "none", after |-> "none",
   last |-> "none", accepts |-> 0, refreshes |-> 0, urnFailed |-> FALSE,
   retryOnly |-> TRUE]

\* return <res>
Done(cl, res) == [cl EXCEPT !.st = "done", !.result = res]

\* if resp.status_code in (200, 201)
IsSuccess(s) == s \in {200, 201}

\* What the platform's answer to a publish request is, as the wire contract
\* classes it: a 2xx, 401, 403, or anything else (a transport error too).
ResponseClass(s) ==
  IF Is2xx(s) THEN "2xx"
  ELSE IF s = 401 THEN "401"
  ELSE IF s = 403 THEN "403"
  ELSE "other"

\* Mutant of Classify: a 403 is logged and retried like a 500.
Classify_Retry403(s, refreshed) ==
  IF IsSuccess(s) THEN "success"
  ELSE IF s = 401 /\ ~refreshed THEN "refresh"
  ELSE "retry"

\* Mutant of Classify: every 401 is answered with a refresh.
Classify_AlwaysRefresh(s, refreshed) ==
  IF IsSuccess(s) THEN "success"
  ELSE IF s = 401 THEN "refresh"
  ELSE IF s = 403 THEN "forbidden"
  ELSE "retry"

\* The if chain of the loop body: status in (200, 201); 401 and not
\* token_refreshed; 403; anything else, and httpx.HTTPError, falls through
\* to the retry.
Classify(s, refreshed) ==
  IF IsSuccess(s) THEN "success"
  ELSE IF s = 401 /\ ~refreshed THEN "refresh"
  ELSE IF s = 403 THEN "forbidden"
  ELSE "retry"

\* Mutant of NextAttempt: range(1, max_retries + 2), one attempt too many.
NextAttempt_OneMore(cl) ==
  IF cl.attempt < max_retries + 1
    THEN [cl EXCEPT !.st = "post", !.attempt = cl.attempt + 1]
    ELSE Done(cl, FALSE)

\* The for loop takes its next attempt number, or is exhausted and the
\* function returns False.
NextAttempt(cl) ==
  IF cl.attempt < max_retries
    THEN [cl EXCEPT !.st = "post", !.attempt = cl.attempt + 1]
    ELSE Done(cl, FALSE)

\* headers = {"Authorization": f"Bearer {self._access_token}", ...};
\* token_refreshed = False; the loop starts with attempt 1.
StartLoop(cl, author, tok) ==
  [cl EXCEPT !.st = "post", !.attempt = 1, !.refreshed = FALSE,
             !.author = author, !.hdrTok = tok]

\* Mutant of PublishBegin: the access token is not looked at.
PublishBegin_NoTokenCheck(tok, urn) ==
  IF urn # 0
    THEN StartLoop(CallIdle, urn, tok)
    ELSE [CallIdle EXCEPT !.st = "urn_wait", !.reqTok = tok]

\* _publish_linkedin up to its first suspension: no token, return False;
\* a cached identity is used as it is; otherwise GET /v2/userinfo is sent
\* with the current access token.
PublishBegin(tok, urn) ==
  IF tok = 0
    THEN Done(CallIdle, FALSE)
    ELSE IF urn # 0
      THEN StartLoop(CallIdle, urn, tok)
      ELSE [CallIdle EXCEPT !.st = "urn_wait", !.reqTok = tok]

\* _get_user_urn after the response o ("ok": 200 with a sub, "nosub": 200
\* without one, "fail": another status or httpx.HTTPError): the cache.
UrnCache(o, urn, reqTok) == IF o = "ok" THEN reqTok ELSE urn

\* ... and the value returned: self._cached_user_urn, or None.
UrnValue(o, urn, reqTok) == IF o = "fail" THEN 0 ELSE UrnCache(o, urn, reqTok)

\* author = await self._get_user_urn(client); if not author: return False
AfterFirstUrn(cl, author, tok) ==
  IF author = 0
    THEN Done([cl EXCEPT !.urnFailed = TRUE], FALSE)
    ELSE StartLoop(cl, author, tok)

\* After the refresh: author = await self._get_user_urn(client);
\* if author: payload["author"] = author; continue
AfterSecondUrn(cl, author) ==
  NextAttempt([cl EXCEPT !.author = IF author # 0 THEN author ELSE cl.author,
                         !.urnFailed = cl.urnFailed \/ author = 0])

\* Mutant of CanRefresh: the client id is not looked at.
CanRefresh_TokenOnly(rtok, cid) == rtok # 0

\* _refresh_token sends its request only with a refresh token and a client id.
CanRefresh(rtok, cid) == rtok # 0 /\ cid

\* The body of the for loop after client.post was answered with s.
OnPostResponse(cl, s, canRefresh, rtok) ==
  LET d == [cl EXCEPT !.posts = cl.posts + 1,
                      !.accepted = cl.accepted \/ Is2xx(s),
                      !.accepts = cl.accepts + (IF Is2xx(s) THEN 1 ELSE 0),
                      !.last = ResponseClass(s),
                      !.retryOnly = cl.retryOnly /\ ResponseClass(s) = "other",
                      !.after = IF cl.refresh = "ok" /\ cl.after = "none"
                                  THEN (IF s \in {200, 201} THEN "created"
                                        ELSE IF Is2xx(s) THEN "accepted"
                                        ELSE "other")
                                  ELSE cl.after]
      k == Classify(s, cl.refreshed)
  IN  CASE k = "success"   -> Done(d, TRUE)
        [] k = "refresh"   ->
             IF canRefresh
               THEN [d EXCEPT !.st = "refresh_wait", !.reqTok = rtok,
                              !.refreshes = d.refreshes + 1]
               ELSE Done([d EXCEPT !.refresh = "failed",
                                   !.refreshes = d.refreshes + 1], FALSE)
        [] k = "forbidden" -> Done(d, FALSE)
        [] OTHER           -> NextAttempt(d)

\* Mutant of OnRefreshFailed: the failed refresh is logged and the loop goes
\* on to its next attempt.
OnRefreshFailed_Retry(cl) == NextAttempt([cl EXCEPT !.refresh = "failed"])

\* _refresh_token returned False (a status other than 200, httpx.HTTPError):
\* logger.error("Token refresh failed"); return False
OnRefreshFailed(cl) == Done([cl EXCEPT !.refresh = "failed"], FALSE)

\* _refresh_token returned True: token_refreshed = True, the header takes
\* the new token, and _get_user_urn, its cache just cleared, sends
\* GET /v2/userinfo with the new token.
OnRefreshed(cl, tok) ==
  [cl EXCEPT !.st = "urn_wait2", !.refreshed = TRUE, !.hdrTok = tok,
             !.reqTok = tok, !.refresh = "ok"]

(* ------------------ the text _publish_linkedin transmits ------------- *)

\* A text is the sequence of its characters.
\* " ".join(f"#{t}" for t in piece.hashtags)
RECURSIVE JoinTags(_)
JoinTags(h) ==
  IF h = <<>> THEN <<>>
  ELSE IF Len(h) = 1 THEN <<"#">> \o h[1]
  ELSE <<"#">> \o h[1] \o <<" ">> \o JoinTags(Tail(h))

\* text[:n]
Slice(text, n) == SubSeq(text, 1, IF Len(text) < n THEN Len(text) ELSE n)

\* Mutant of Commentary: the body is cut to the limit, then the trailer is
\* appended.
Commentary_CutBody(content, hashtags) ==
  IF hashtags # <<>>
    THEN Slice(content, TextLimit) \o <<"\n", "\n">> \o JoinTags(hashtags)
    ELSE Slice(content, TextLimit)

\* text = piece.content; if piece.hashtags: text = f"{text}\n\n{tags}";
\* text = text[:3000]
Commentary(content, hashtags) ==
  LET text == IF hashtags # <<>>
                THEN content \o <<"\n", "\n">> \o JoinTags(hashtags)
                ELSE content
  IN  Slice(text, TextLimit)

(* --------------- CampaignResponse as JSON text, and back ------------- *)

\* A string is the sequence of its characters, and a JSON text the sequence
\* of its symbols: the punctuation, the literals true, false and null, the
\* field names, and between two quotes the characters of a string, where a
\* quote, a backslash and a newline are written with a backslash before.

\* A response with nothing in it.  An Optional[str] is <<>> (None) or <<s>>.
NoResponse ==
  [campaign_id |-> <<>>, topic |-> <<>>, status |-> <<>>, content |-> <<>>,
   trend_insights |-> <<>>]

\* Mutant of Esc: the backslash is written as it is.
Esc_RawBackslash(ch) ==
  IF ch = "\"" THEN <<"\\", "\"">>
  ELSE IF ch = "\n" THEN <<"\\", "n">>
  ELSE <<ch>>

\* A character as the serialiser writes it inside a JSON string.
Esc(ch) ==
  IF ch = "\"" THEN <<"\\", "\"">>
  ELSE IF ch = "\\" THEN <<"\\", "\\">>
  ELSE IF ch = "\n" THEN <<"\\", "n">>
  ELSE <<ch>>

RECURSIVE EscAll(_)
EscAll(str) == IF str = <<>> THEN <<>> ELSE Esc(Head(str)) \o EscAll(Tail(str))

\* str, Optional[str], bool, list[str]
DumpStr(str) == <<"\"">> \o EscAll(str) \o <<"\"">>
DumpOpt(o) == IF o = <<>> THEN <<"null">> ELSE DumpStr(o[1])
DumpBool(b) == <<IF b THEN "true" ELSE "false">>

RECURSIVE DumpStrs(_)
DumpStrs(l) ==
  IF l = <<>> THEN <<>>
  ELSE IF Len(l) = 1 THEN DumpStr(l[1])
  ELSE DumpStr(l[1]) \o <<",">> \o DumpStrs(Tail(l))

\* ContentPiece, its fields in the order of the class.
DumpPiece(cp) ==
  <<"{", "platform", ":">> \o DumpStr(<<cp.platform>>)
  \o <<",", "content", ":">> \o DumpStr(cp.content)
  \o <<",", "hashtags", ":", "[">> \o DumpStrs(cp.hashtags) \o <<"]">>
  \o <<",", "scheduled_time", ":">> \o DumpOpt(cp.scheduled_time)
  \o <<",", "published", ":">> \o DumpBool(cp.published)
  \o <<"}">>

RECURSIVE DumpPieces(_)
DumpPieces(l) ==
  IF l = <<>> THEN <<>>
  ELSE IF Len(l) = 1 THEN DumpPiece(l[1])
  ELSE DumpPiece(l[1]) \o <<",">> \o DumpPieces(Tail(l))

\* CampaignResponse.model_dump_json()
model_dump_json(r) ==
  <<"{", "campaign_id", ":">> \o DumpStr(r.campaign_id)
  \o <<",", "topic", ":">> \o DumpStr(r.topic)
  \o <<",", "status", ":">> \o DumpStr(r.status)
  \o <<",", "content", ":", "[">> \o DumpPieces(r.content) \o <<"]">>
  \o <<",", "trend_insights", ":">> \o DumpOpt(r.trend_insights)
  \o <<"}">>

\* The parser: each step reads from position p of text t and gives the
\* value read and the position behind it, or fails.
Fail == [ok |-> FALSE, v |-> <<>>, p |-> 0]
Read(v, p) == [ok |-> TRUE, v |-> v, p |-> p]

\* The symbols syms stand at position p.
At(t, p, syms) ==
  /\ p >= 1
  /\ p + Len(syms) - 1 <= Len(t)
  /\ \A k \in DOMAIN syms : t[p + k - 1] = syms[k]

\* Inside a string: up to the closing quote.
RECURSIVE ScanStr(_, _, _)
ScanStr(t, p, acc) ==
  IF p > Len(t) THEN Fail
  ELSE IF t[p] = "\"" THEN Read(acc, p + 1)
  ELSE IF t[p] = "\\"
    THEN IF p + 1 > Len(t) THEN Fail
         ELSE IF t[p + 1] = "n" THEN ScanStr(t, p + 2, Append(acc, "\n"))
         ELSE IF t[p + 1] \in {"\"", "\\"}
           THEN ScanStr(t, p + 2, Append(acc, t[p + 1]))
         ELSE Fail
  ELSE ScanStr(t, p + 1, Append(acc, t[p]))

\* str
ParseStr(t, p) == IF At(t, p, <<"\"">>) THEN ScanStr(t, p + 1, <<>>) ELSE Fail

\* Optional[str]: null is None.
Some(x) == IF x.ok THEN Read(<<x.v>>, x.p) ELSE Fail

ParseOpt(t, p) ==
  IF At(t, p, <<"null">>) THEN Read(<<>>, p + 1) ELSE Some(ParseStr(t, p))

\* bool
ParseBool(t, p) ==
  IF At(t, p, <<"true">>) THEN Read(TRUE, p + 1)
  ELSE IF At(t, p, <<"false">>) THEN Read(FALSE, p + 1)
  ELSE Fail

\* Platform: the string must be the value of a member of the enum.
AsPlatform(x) ==
  IF x.ok /\ x.v = <<"linkedin">> THEN Read("linkedin", x.p) ELSE Fail

ParsePlatform(t, p) == AsPlatform(ParseStr(t, p))

\* list[str]: the elements behind the opening bracket; x is the one read.
RECURSIVE ScanStrs(_, _, _)
MoreStrs(t, x, acc) ==
  IF ~x.ok THEN Fail
  ELSE IF At(t, x.p, <<",">>) THEN ScanStrs(t, x.p + 1, Append(acc, x.v))
  ELSE IF At(t, x.p, <<"]">>) THEN Read(Append(acc, x.v), x.p + 1)
  ELSE Fail

ScanStrs(t, p, acc) ==
  IF At(t, p, <<"]">>) /\ acc = <<>> THEN Read(acc, p + 1)
  ELSE MoreStrs(t, ParseStr(t, p), acc)

ParseStrs(t, p) ==
  IF At(t, p, <<"[">>) THEN ScanStrs(t, p + 1, <<>>) ELSE Fail

\* An object is read field by field: r is the object read so far with the
\* position behind it, syms the symbols before the next field, x its value.
Skip(t, r, syms) ==
  IF r.ok /\ At(t, r.p, syms) THEN Read(r.v, r.p + Len(syms)) ELSE Fail

Field(r, name, x) ==
  IF r.ok /\ x.ok THEN Read([r.v EXCEPT ![name] = x.v], x.p) ELSE Fail

\* The field of an object, by its type.
StrField(t, r, name) == Field(r, name, ParseStr(t, r.p))
OptField(t, r, name) == Field(r, name, ParseOpt(t, r.p))
BoolField(t, r, name) == Field(r, name, ParseBool(t, r.p))
StrsField(t, r, name) == Field(r, name, ParseStrs(t, r.p))
PlatformField(t, r, name) == Field(r, name, ParsePlatform(t, r.p))

\* ContentPiece, field by field.
NoPieceRead ==
  [platform |-> "", content |-> <<>>, hashtags |-> <<>>,
   scheduled_time |-> <<>>, published |-> FALSE]

ParsePiece(t, p) ==
  Skip(t,
    BoolField(t,
      Skip(t,
        OptField(t,
          Skip(t,
            StrsField(t,
              Skip(t,
                StrField(t,
                  Skip(t,
                    PlatformField(t,
                      Skip(t, Read(NoPieceRead, p), <<"{", "platform", ":">>),
                      "platform"),
                    <<",", "content", ":">>),
                  "content"),
                <<",", "hashtags", ":">>),
              "hashtags"),
            <<",", "scheduled_time", ":">>),
          "scheduled_time"),
        <<",", "published", ":">>),
      "published"),
    <<"}">>)

\* list[ContentPiece]: the elements behind the opening bracket.
RECURSIVE ScanPieces(_, _, _)
MorePieces(t, x, acc) ==
  IF ~x.ok THEN Fail
  ELSE IF At(t, x.p, <<",">>) THEN ScanPieces(t, x.p + 1, Append(acc, x.v))
  ELSE IF At(t, x.p, <<"]">>) THEN Read(Append(acc, x.v), x.p + 1)
  ELSE Fail

ScanPieces(t, p, acc) ==
  IF At(t, p, <<"]">>) /\ acc = <<>> THEN Read(acc, p + 1)
  ELSE MorePieces(t, ParsePiece(t, p), acc)

ParsePieces(t, p) ==
  IF At(t, p, <<"[">>) THEN ScanPieces(t, p + 1, <<>>) ELSE Fail

\* list[ContentPiece] as the field of an object.
PiecesField(t, r, name) == Field(r, name, ParsePieces(t, r.p))

\* CampaignResponse, field by field, up to its closing brace.
ParseResponse(t) ==
  Skip(t,
    OptField(t,
      Skip(t,
        PiecesField(t,
          Skip(t,
            StrField(t,
              Skip(t,
                StrField(t,
                  Skip(t,
                    StrField(t,
                      Skip(t, Read(NoResponse, 1), <<"{", "campaign_id", ":">>),
                      "campaign_id"),
                    <<",", "topic", ":">>),
                  "topic"),
                <<",", "status", ":">>),
              "status"),
            <<",", "content", ":">>),
          "content"),
        <<",", "trend_insights", ":">>),
      "trend_insights"),
    <<"}">>)

\* The whole text must be the object.
Whole(t, r) == IF r.ok /\ r.p = Len(t) + 1 THEN r ELSE Fail

\* CampaignResponse.model_validate_json(data): ok is false where it raises
\* ValidationError.
model_validate_json(t) == Whole(t, ParseResponse(t))

\* key = f"{CAMPAIGN_KEY_PREFIX}{campaign_id}"
CampaignKey(id) == <<"campaign:">> \o id

\* RedisService.store_campaign: the keys of Redis afterwards.
store_campaign(store, connected, r) ==
  IF ~connected THEN store
  ELSE [k \in DOMAIN store \cup {CampaignKey(r.campaign_id)} |->
          IF k = CampaignKey(r.campaign_id) THEN model_dump_json(r)
                                            ELSE store[k]]

\* RedisService.get_campaign: None without a client, without the key and
\* for an empty value.
get_campaign(store, connected, id) ==
  IF ~connected \/ CampaignKey(id) \notin DOMAIN store THEN Fail
  ELSE IF store[CampaignKey(id)] = <<>> THEN Fail
  ELSE model_validate_json(store[CampaignKey(id)])

(* ------------------- run_campaign and the three stages --------------- *)

\* Where the pipeline stands.  A location names what is done next.
TrendLocs     == {"t_bc1", "t_search", "t_bc2", "t_llm", "t_bc3"}
WriterLocs    == {"w_bc_run", "w_llm", "w_bc_done"}
PublisherLocs == {"p_bc_run", "p_call", "p_bc_ok", "p_bc_fail", "p_bc_draft",
                  "p_store"}
\* The broadcasts of run_campaign itself: each is followed by a return.
FinalLocs     == {"t_fail_bc", "w_fail_bc", "p_fail_bc", "final_bc"}
\* The locations that call ws_manager.broadcast_event.
EmitLocs      == {"t_bc1", "t_bc2", "t_bc3", "w_bc_run", "w_bc_done",
                  "p_bc_run", "p_bc_ok", "p_bc_fail", "p_bc_draft"}
                 \cup FinalLocs

StageOf(loc) ==
  IF loc \in TrendLocs \cup {"t_fail_bc"} THEN "trend_agent"
  ELSE IF loc \in WriterLocs \cup {"w_fail_bc"} THEN "writer_agent"
  ELSE "publisher_agent"

\* Mutant of EventAt: the publisher's own failed event is tagged final too.
EventAt_FinalPerPiece(loc, k) ==
  [agent  |-> StageOf(loc),
   status |-> IF loc \in {"t_bc1", "t_bc2", "w_bc_run", "p_bc_run"}
                THEN "running"
              ELSE IF loc \in {"t_fail_bc", "w_fail_bc", "p_fail_bc", "p_bc_fail"}
                THEN "failed"
              ELSE "completed",
   final  |-> loc \in FinalLocs \cup {"p_bc_fail"},
   idx    |-> IF loc \in WriterLocs \cup PublisherLocs THEN k ELSE 0]

\* The AgentEvent broadcast at a location; idx is the position of the
\* platform or piece the event is about (0: none).
EventAt(loc, k) ==
  [agent  |-> StageOf(loc),
   status |-> IF loc \in {"t_bc1", "t_bc2", "w_bc_run", "p_bc_run"}
                THEN "running"
              ELSE IF loc \in {"t_fail_bc", "w_fail_bc", "p_fail_bc", "p_bc_fail"}
                THEN "failed"
              ELSE "completed",
   final  |-> loc \in FinalLocs,
   idx    |-> IF loc \in WriterLocs \cup PublisherLocs THEN k ELSE 0]

\* Mutant of Handler: an exception of the publisher is swallowed and the
\* campaign is reported as complete.
Handler_Swallow(loc) ==
  IF loc \in TrendLocs THEN "t_fail_bc"
  ELSE IF loc \in WriterLocs THEN "w_fail_bc"
  ELSE IF loc \in PublisherLocs THEN "final_bc"
  ELSE "raised"

\* An exception raised at a location reaches the except clause around the
\* stage's call; one raised in the except clause, or by the last broadcast,
\* leaves run_campaign.
Handler(loc) ==
  IF loc \in TrendLocs THEN "t_fail_bc"
  ELSE IF loc \in WriterLocs THEN "w_fail_bc"
  ELSE IF loc \in PublisherLocs THEN "p_fail_bc"
  ELSE "raised"

\* Mutant of EnterPublisher: the auto_publish flag is not looked at.
EnterPublisher_AlwaysPublish(req, n, k) ==
  IF k <= n
    THEN [pc |-> "p_bc_run", i |-> k]
    ELSE [pc |-> "final_bc", i |-> 0]

\* PublisherAgent.run: for piece in content_pieces, from piece k on.
EnterPublisher(req, n, k) ==
  IF k <= n
    THEN [pc |-> IF req.auto_publish THEN "p_bc_run" ELSE "p_bc_draft", i |-> k]
    ELSE [pc |-> "final_bc", i |-> 0]

\* WriterAgent.run: for platform in platforms, from platform k on; after the
\* last one the list is returned and the publisher is run on it.
EnterWriter(req, k) ==
  IF k <= Len(req.platforms)
    THEN [pc |-> "w_bc_run", i |-> k]
    ELSE EnterPublisher(req, Len(req.platforms), 1)

\* Mutant of AfterEmit: the except clause of the trend agent lacks its
\* return, and run_campaign goes on to the writer.
AfterEmit_NoReturn(loc, k, req) ==
  CASE loc = "t_bc1"     -> [pc |-> "t_search", i |-> 0]
    [] loc = "t_bc2"     -> [pc |-> "t_llm", i |-> 0]
    [] loc \in {"t_bc3", "t_fail_bc"} -> EnterWriter(req, 1)
    [] loc = "w_bc_run"  -> [pc |-> "w_llm", i |-> k]
    [] loc = "w_bc_done" -> EnterWriter(req, k + 1)
    [] loc = "p_bc_run"  -> [pc |-> "p_call", i |-> k]
    [] loc \in {"p_bc_ok", "p_bc_fail", "p_bc_draft"}
                         -> [pc |-> "p_store", i |-> k]
    [] OTHER             -> [pc |-> "returned", i |-> 0]

\* Where a broadcast_event call that returned leaves the pipeline.
AfterEmit(loc, k, req) ==
  CASE loc = "t_bc1"     -> [pc |-> "t_search", i |-> 0]
    [] loc = "t_bc2"     -> [pc |-> "t_llm", i |-> 0]
    [] loc = "t_bc3"     -> EnterWriter(req, 1)
    [] loc = "w_bc_run"  -> [pc |-> "w_llm", i |-> k]
    [] loc = "w_bc_done" -> EnterWriter(req, k + 1)
    [] loc = "p_bc_run"  -> [pc |-> "p_call", i |-> k]
    [] loc \in {"p_bc_ok", "p_bc_fail", "p_bc_draft"}
                         -> [pc |-> "p_store", i |-> k]
    [] OTHER             -> [pc |-> "returned", i |-> 0]

\* ContentPiece(platform=platform, content=..., hashtags=...): published
\* takes its default, False.
NewPiece(platform) == [platform |-> platform, published |-> FALSE]

\* Mutant of MarkPublished: the flag is set whatever the call returned.
MarkPublished_Always(pieces, k, success) ==
  [pieces EXCEPT ![k].published = TRUE]

\* if success: piece.published = True
MarkPublished(pieces, k, success) ==
  IF success THEN [pieces EXCEPT ![k].published = TRUE] ELSE pieces

\* Mutant of AfterPublish: a piece that could not be published fails the
\* stage.
AfterPublish_Abort(success) == IF success THEN "p_bc_ok" ELSE "p_fail_bc"

\* if success: broadcast COMPLETED, else: broadcast FAILED ("Saved as
\* draft"); either way the loop goes on to store the piece.
AfterPublish(success) == IF success THEN "p_bc_ok" ELSE "p_bc_fail"

\* Mutant of Response: the pieces drafted before the writer failed are kept.
Response_KeepDraft(loc, b, pieces) ==
  CASE loc = "t_fail_bc" ->
         [status |-> "failed", content |-> <<>>, trend_insights |-> "Error"]
    [] loc \in {"w_fail_bc", "p_fail_bc"} ->
         [status |-> "failed", content |-> pieces, trend_insights |-> b]
    [] OTHER ->
         [status |-> "completed", content |-> pieces, trend_insights |-> b]

\* Mutant of Response: the pieces are dropped when the publisher failed.
Response_DropPieces(loc, b, pieces) ==
  CASE loc = "t_fail_bc" ->
         [status |-> "failed", content |-> <<>>, trend_insights |-> "Error"]
    [] loc \in {"w_fail_bc", "p_fail_bc"} ->
         [status |-> "failed", content |-> <<>>, trend_insights |-> b]
    [] OTHER ->
         [status |-> "completed", content |-> pieces, trend_insights |-> b]

\* The CampaignResponse each return statement of run_campaign builds.
Response(loc, b, pieces) ==
  CASE loc = "t_fail_bc" ->
         [status |-> "failed", content |-> <<>>, trend_insights |-> "Error"]
    [] loc = "w_fail_bc" ->
         [status |-> "failed", content |-> <<>>, trend_insights |-> b]
    [] loc = "p_fail_bc" ->
         [status |-> "failed", content |-> pieces, trend_insights |-> b]
    [] OTHER ->
         [status |-> "completed", content |-> pieces, trend_insights |-> b]

\* _refresh_token answered with 200: the credential state afterwards.  The
\* access token is replaced, the refresh token too when the response holds
\* one, and the cached identity is cleared.
RefreshedCreds(new, rotate, rtok) ==
  [access_token |-> new,
   refresh_token |-> IF rotate THEN new ELSE rtok,
   cached_user_urn |-> 0]

(* ------------------------------- Init -------------------------------- *)

Briefs == {"brief"}

PlatformLists ==
  UNION {[1 .. n -> {"linkedin"}] : n \in 0 .. MaxPlatforms}

NoResult == [status |-> "none", content |-> <<>>, trend_insights |-> "none"]

NoTrace ==
  [failed    |-> "none",  \* the stage whose run raised
   cause     |-> "none",  \* what raised there: a collaborator, or the bus
   outcome   |-> <<>>,    \* what each _publish_linkedin call returned
   accepted  |-> {},      \* the pieces a publish request of which got a 2xx
   posted    |-> FALSE,   \* a publish request was made for the campaign
   stored    |-> <<>>]    \* the pieces handed to store_campaign_results

EmptyRegistry == [c \in {} |-> <<>>]

InitBus ==
  /\ active_connections = EmptyRegistry
  /\ wsState = [w \in WS |-> "new"]
  /\ wsCampaign = [w \in WS |-> Run]
  /\ bc = [c \in Campaigns |-> BcIdle]

\* settings as read from the environment, and PublisherAgent.__init__:
\* nothing configured (the defaults), or an access token with or without
\* what a refresh needs.  Access token 1 is the configured one, and the
\* authorization server issues 2, 3, ...
InitCreds ==
  /\ access_token \in {0, 1}
  /\ refresh_token \in {0, 1}
  /\ client_id \in BOOLEAN
  /\ access_token = 0 => (refresh_token = 0 /\ ~client_id)
  /\ cached_user_urn = 0
  /\ call = [c \in Campaigns |-> CallIdle]

\* run_campaign(request) was called; trend_agent.run is at its first line.
InitPipeline ==
  /\ request \in [platforms : PlatformLists, auto_publish : BOOLEAN]
  /\ pc = "t_bc1"
  /\ i = 0
  /\ brief = "none"
  /\ content_pieces = <<>>
  /\ events = <<>>
  /\ result = NoResult
  /\ trace = NoTrace

\* No text is followed.
NoPiece == [content |-> <<>>, hashtags |-> <<>>]
NoPayload == [built |-> FALSE, commentary |-> <<>>]

\* No disconnect call is followed.
NoUnsub ==
  [calls |-> 0, ws |-> 0, campaign |-> "none", raised |-> FALSE,
   first |-> EmptyRegistry]

NoRoundTrip ==
  [orig      |-> NoResponse,
   connected |-> FALSE,           \* redis_service._client is not None
   path      |-> "none",          \* "json": directly, "redis": by the store
   json      |-> <<>>,            \* the text model_dump_json returned
   store     |-> [k \in {} |-> <<>>],     \* the keys of Redis
   got       |-> "pending",       \* "value", "none", "invalid"
   restored  |-> <<>>]            \* <<the response read back>>

\* No event was published.  calls[e] is the broadcast_event call of the
\* e-th event, log[w] the numbers of the events connection w received, in
\* the order in which its send_text calls returned.
NoFeed == [calls |-> <<>>, log |-> [w \in Observers |-> <<>>]]

InitAux ==
  /\ piece = NoPiece /\ payload = NoPayload /\ unsub = NoUnsub
  /\ rt = NoRoundTrip
  /\ feed = NoFeed

Init == InitBus /\ InitCreds /\ InitPipeline /\ InitAux

(* ------------------------ steps of the pipeline ---------------------- *)

\* A stage's run raised at location loc.
Raised(loc, cause) ==
  IF loc \in FinalLocs THEN trace
  ELSE [trace EXCEPT !.failed = StageOf(loc), !.cause = cause]

\* The pipeline awaits the broadcast_event call of campaign c.
Awaits(c) == c = Run /\ pc \in EmitLocs

\* The broadcast_event call awaited at pc returned (st = "returned") or
\* raised (st = "raised"): the caller runs on without suspending, to the
\* next await of the stage or to the return statement of run_campaign.
Continue(st) ==
  IF st = "raised"
    THEN /\ pc' = Handler(pc)
         /\ trace' = Raised(pc, "bus")
         /\ UNCHANGED <<i, result>>
    ELSE /\ pc' = AfterEmit(pc, i, request).pc
         /\ i' = AfterEmit(pc, i, request).i
         /\ result' = IF pc \in FinalLocs
                        THEN Response(pc, brief, content_pieces)
                        ELSE result
         /\ UNCHANGED trace

\* run_campaign has ended, by a return or by an exception.
Ended == pc \in {"returned", "raised"}

(* ----------------------- actions of the observers -------------------- *)

\* websocket_endpoint: await ws_manager.connect(websocket, campaign_id)
\* The connections are numbered in the order in which they connect.
Connect(w, c) ==
  /\ wsState[w] = "new"
  /\ \A v \in 1 .. (w - 1) : wsState[v] # "new"
  /\ wsState' = [wsState EXCEPT ![w] = "open"]
  /\ wsCampaign' = [wsCampaign EXCEPT ![w] = c]
  /\ active_connections' = connect(active_connections, w, c)
  /\ UNCHANGED <<bc, credVars, call, pipeVars>>
  /\ UNCHANGED auxVars

\* The number of connections that were severed or have stalled.
Severed ==
  Cardinality({v \in DOMAIN wsState :
                 wsState[v] \in {"dropped", "closed", "stalled"}})

\* The observer's connection is severed: from now on send_text raises, and
\* receive_text raises WebSocketDisconnect once the handler runs.
ClientDrop(w) ==
  /\ wsState[w] = "open"
  /\ wsState' = [wsState EXCEPT ![w] = "dropped"]
  /\ UNCHANGED <<active_connections, wsCampaign, bc, credVars, call, pipeVars>>
  /\ UNCHANGED auxVars

\* The observer's transport stops acknowledging: the connection stays up
\* (receive_text keeps waiting), and a send_text to it never returns.
ClientStall(w) ==
  /\ wsState[w] = "open"
  /\ wsState' = [wsState EXCEPT ![w] = "stalled"]
  /\ UNCHANGED <<active_connections, wsCampaign, bc, credVars, call, pipeVars>>
  /\ UNCHANGED auxVars

\* websocket_endpoint: except WebSocketDisconnect:
\*     ws_manager.disconnect(websocket, campaign_id)
\* A broadcast of the campaign that is looping over the list whose key this
\* deletes goes on with the emptied list.
HandlerDisconnect(w) ==
  /\ wsState[w] = "dropped"
  /\ LET c == wsCampaign[w]
         r == disconnect(active_connections, w, c)
     IN  /\ active_connections' = r.reg
         /\ bc' = [bc EXCEPT ![c].detached =
                     @ \/ (bc[c].st = "sending" /\ c \in DOMAIN active_connections
                           /\ c \notin DOMAIN r.reg)]
  /\ wsState' = [wsState EXCEPT ![w] = "closed"]
  /\ UNCHANGED <<wsCampaign, credVars, call, pipeVars>>
  /\ UNCHANGED auxVars

\* broadcast_event resumes from await ws.send_text(payload), and when the
\* call ends the pipeline that awaits it runs on.  The await has no timeout:
\* it is over when the transport says so.
SendComplete(c) ==
  /\ bc[c].st = "sending"
  /\ wsState[bc[c].cur] # "stalled"
  /\ LET b == AfterSend(bc[c], wsState[bc[c].cur] = "open")
         r == BroadcastStep(active_connections, b, c)
     IN  /\ active_connections' = r.reg
         /\ IF r.bc.st # "sending" /\ Awaits(c)
              THEN /\ bc' = [bc EXCEPT ![c] = BcIdle]
                   /\ Continue(r.bc.st)
              ELSE /\ bc' = [bc EXCEPT ![c] = r.bc]
                   /\ UNCHANGED <<pc, i, result, trace>>
  /\ UNCHANGED <<wsState, wsCampaign, credVars, call, request, brief,
                 content_pieces, events>>
  /\ UNCHANGED auxVars

(* ------------------------ actions of the pipeline -------------------- *)

\* await ws_manager.broadcast_event(AgentEvent(...)): with nobody
\* registered for the campaign the call returns at once.
Emit ==
  /\ pc \in EmitLocs
  /\ bc[Run].st = "idle"
  /\ events' = Append(events, EventAt(pc, i))
  /\ LET r == BroadcastBegin(active_connections, Run)
     IN  /\ active_connections' = r.reg
         /\ IF r.bc.st = "sending"
              THEN /\ bc' = [bc EXCEPT ![Run] = r.bc]
                   /\ UNCHANGED <<pc, i, result, trace>>
              ELSE /\ UNCHANGED bc
                   /\ Continue(r.bc.st)
  /\ UNCHANGED <<wsState, wsCampaign, credVars, call, request, brief,
                 content_pieces>>
  /\ UNCHANGED auxVars

\* trend_agent.run: past_results = await pinecone_service.search_similar(...)
TrendSearch ==
  /\ pc = "t_search"
  /\ \E ok \in BOOLEAN :
       /\ pc' = IF ok THEN "t_bc2" ELSE Handler(pc)
       /\ trace' = IF ok THEN trace ELSE Raised(pc, "collaborator")
  /\ UNCHANGED <<busVars, credVars, call, request, i, brief, content_pieces,
                 events, result>>
  /\ UNCHANGED auxVars

\* trend_agent.run: result = await chain.ainvoke(...); brief = result.content
TrendLLM ==
  /\ pc = "t_llm"
  /\ \E ok \in BOOLEAN, b \in Briefs :
       /\ pc' = IF ok THEN "t_bc3" ELSE Handler(pc)
       /\ brief' = IF ok THEN b ELSE brief
       /\ trace' = IF ok THEN trace ELSE Raised(pc, "collaborator")
  /\ UNCHANGED <<busVars, credVars, call, request, i, content_pieces, events,
                 result>>
  /\ UNCHANGED auxVars

\* writer_agent.run: result = await chain.ainvoke(...), the parse, and
\* content_pieces.append(piece)
WriterLLM ==
  /\ pc = "w_llm"
  /\ \E ok \in BOOLEAN :
       /\ pc' = IF ok THEN "w_bc_done" ELSE Handler(pc)
       /\ content_pieces' =
            IF ok THEN Append(content_pieces, NewPiece(request.platforms[i]))
                  ELSE content_pieces
       /\ trace' = IF ok THEN trace ELSE Raised(pc, "collaborator")
  /\ UNCHANGED <<busVars, credVars, call, request, i, brief, events, result>>
  /\ UNCHANGED auxVars

\* publisher_agent.run: success = await self._publish_linkedin(piece)
PublishCall ==
  /\ pc = "p_call"
  /\ call[Run].st = "idle"
  /\ call' = [call EXCEPT ![Run] = PublishBegin(access_token, cached_user_urn)]
  /\ UNCHANGED <<busVars, credVars, pipeVars>>
  /\ UNCHANGED auxVars

\* _get_user_urn resumes from await client.get(".../v2/userinfo").
UrnResponse(c) ==
  /\ call[c].st \in {"urn_wait", "urn_wait2"}
  /\ \E o \in {"ok", "nosub", "fail"} :
       LET v == UrnValue(o, cached_user_urn, call[c].reqTok)
       IN  /\ cached_user_urn' = UrnCache(o, cached_user_urn, call[c].reqTok)
           /\ call' = [call EXCEPT ![c] =
                         IF call[c].st = "urn_wait"
                           THEN AfterFirstUrn(call[c], v, access_token)
                           ELSE AfterSecondUrn(call[c], v)]
  /\ UNCHANGED <<busVars, access_token, refresh_token, client_id, pipeVars>>
  /\ UNCHANGED auxVars

\* _publish_linkedin resumes from await client.post(".../rest/posts"),
\* and from the sleep before it when the attempt is a retry.
PostResponse(c) ==
  /\ call[c].st = "post"
  /\ \E s \in Statuses :
       call' = [call EXCEPT ![c] =
                  OnPostResponse(call[c], s,
                                 CanRefresh(refresh_token, client_id),
                                 refresh_token)]
  /\ UNCHANGED <<busVars, credVars, pipeVars>>
  /\ UNCHANGED auxVars

\* _refresh_token resumes from await client.post(".../oauth/v2/accessToken")
\* with outcome o: "ok" is a 200 with a new access token, "rotate" a 200 with
\* a new refresh token as well, "fail" another status or httpx.HTTPError.
RefreshResponse(c, o) ==
  /\ call[c].st = "refresh_wait"
  /\ IF o = "fail"
       THEN /\ call' = [call EXCEPT ![c] = OnRefreshFailed(call[c])]
            /\ UNCHANGED credVars
       ELSE LET k == RefreshedCreds(access_token + 1, o = "rotate", refresh_token)
            IN  /\ access_token' = k.access_token
                /\ refresh_token' = k.refresh_token
                /\ cached_user_urn' = k.cached_user_urn
                /\ call' = [call EXCEPT ![c] =
                              OnRefreshed(call[c], k.access_token)]
                /\ UNCHANGED client_id
  /\ UNCHANGED <<busVars, pipeVars>>
  /\ UNCHANGED auxVars

\* publisher_agent.run: _publish_linkedin returned; if success:
\* piece.published = True
PublishReturn ==
  /\ pc = "p_call"
  /\ call[Run].st = "done"
  /\ content_pieces' = MarkPublished(content_pieces, i, call[Run].result)
  /\ pc' = AfterPublish(call[Run].result)
  /\ trace' = [trace EXCEPT
                 !.outcome = Append(@, call[Run].result),
                 !.accepted = IF call[Run].accepted THEN @ \cup {i} ELSE @,
                 !.posted = @ \/ call[Run].posts > 0]
  /\ call' = [call EXCEPT ![Run] = CallIdle]
  /\ UNCHANGED <<busVars, credVars, request, i, brief, events, result>>
  /\ UNCHANGED auxVars

\* publisher_agent.run: await pinecone_service.store_campaign_results(...)
Store ==
  /\ pc = "p_store"
  /\ \E ok \in BOOLEAN :
       /\ pc' = IF ok THEN EnterPublisher(request, Len(content_pieces), i + 1).pc
                      ELSE Handler(pc)
       /\ i' = IF ok THEN EnterPublisher(request, Len(content_pieces), i + 1).i
                     ELSE i
       /\ trace' = [(IF ok THEN trace ELSE Raised(pc, "collaborator"))
                     EXCEPT !.stored = Append(@, i)]
  /\ UNCHANGED <<busVars, credVars, call, request, brief, content_pieces,
                 events, result>>
  /\ UNCHANGED auxVars

\* The campaign is followed until run_campaign ends, and its observers
\* connect to its own stream.  The pipeline reads and writes the registry
\* only inside broadcast_event, and the observers touch nothing else, so an
\* observer's step commutes with every other step of the pipeline: it is
\* taken here when the pipeline stands at a broadcast, the one place where
\* the order matters.  Nothing the pipeline does reads the value of the
\* refresh token, only whether there is one, so the refresh responses that
\* rotate it are left to the specifications of the publish client.
Next ==
  \/ pc \in EmitLocs /\ \E w \in WS : Connect(w, Run)
  \/ pc \in EmitLocs /\ Severed < MaxDrops /\ \E w \in WS : ClientDrop(w)
  \/ pc \in EmitLocs /\ \E w \in WS : HandlerDisconnect(w)
  \/ \E c \in Campaigns : SendComplete(c)
  \/ Emit
  \/ TrendSearch
  \/ TrendLLM
  \/ WriterLLM
  \/ PublishCall
  \/ \E c \in Campaigns : UrnResponse(c)
  \/ \E c \in Campaigns : PostResponse(c)
  \/ \E c \in Campaigns, o \in {"ok", "fail"} : RefreshResponse(c, o)
  \/ PublishReturn
  \/ Store

Spec == Init /\ [][Next]_vars

(* ----------------- the publish client on its own ------------------ *)

\* The PublisherAgent is one object (publisher_agent, a module singleton)
\* whose credential state outlives a call.  Here the stages and the bus are
\* left out, and the pipeline of one campaign calls _publish_linkedin piece
\* after piece, each call starting from the credentials and the cached
\* identity the calls before it left.
NoPipeline ==
  /\ request = [platforms |-> <<>>, auto_publish |-> TRUE]
  /\ pc = "none"
  /\ i = 0
  /\ brief = "none"
  /\ content_pieces = <<>>
  /\ events = <<>>
  /\ result = NoResult
  /\ trace = NoTrace

\* The settings are read from the environment one by one: any of the
\* access token, the refresh token and the client id may be missing.
AnyCreds ==
  /\ access_token \in {0, 1}
  /\ refresh_token \in {0, 1}
  /\ client_id \in BOOLEAN
  /\ cached_user_urn = 0
  /\ call = [c \in Campaigns |-> CallIdle]

InitPublish == InitBus /\ AnyCreds /\ NoPipeline /\ InitAux

\* The pipeline of campaign c: success = await self._publish_linkedin(piece)
StartCall(c) ==
  /\ call[c].st = "idle"
  /\ call' = [call EXCEPT ![c] = PublishBegin(access_token, cached_user_urn)]
  /\ UNCHANGED <<busVars, credVars, pipeVars>>
  /\ UNCHANGED auxVars

\* _publish_linkedin returned to the pipeline of campaign c.
EndCall(c) ==
  /\ call[c].st = "done"
  /\ call' = [call EXCEPT ![c] = CallIdle]
  /\ UNCHANGED <<busVars, credVars, pipeVars>>
  /\ UNCHANGED auxVars

\* The authorization server answers the refresh request of campaign c's
\* call; it issues no more than MaxTokens access tokens.
RefreshStep(c) ==
  \E o \in {"ok", "rotate", "fail"} :
    /\ o # "fail" => access_token < MaxTokens
    /\ RefreshResponse(c, o)

NextPublish ==
  \/ StartCall(Run)
  \/ \E c \in Campaigns : UrnResponse(c)
  \/ \E c \in Campaigns : PostResponse(c)
  \/ \E c \in Campaigns : RefreshStep(c)
  \/ \E c \in Campaigns : EndCall(c)

SpecPublish == InitPublish /\ [][NextPublish]_vars

\* httpx.AsyncClient(timeout=30.0): every request of the publish client ends,
\* with a response or with httpx.HTTPError, and asyncio.sleep returns.
Fairness ==
  \A c \in Campaigns :
    /\ WF_vars(UrnResponse(c))
    /\ WF_vars(PostResponse(c))
    /\ WF_vars(RefreshStep(c))

FairPublish == SpecPublish /\ Fairness

(* -------------- the publish client, called concurrently -------------- *)

\* Every campaign runs as a task of its own (background_tasks.add_task) and
\* all of them call the one publisher_agent: the calls of two campaigns
\* interleave at every await.  Each campaign publishes one piece here.
NextConcurrent ==
  \/ \E c \in Campaigns : StartCall(c)
  \/ \E c \in Campaigns : UrnResponse(c)
  \/ \E c \in Campaigns : PostResponse(c)
  \/ \E c \in Campaigns : RefreshStep(c)

SpecConcurrent == InitPublish /\ [][NextConcurrent]_vars

(* ----------------------- the event bus on its own -------------------- *)

\* ws_manager is one object for all campaigns.  Here the stages are left
\* out: observers connect to either campaign, and the pipeline of each
\* campaign calls broadcast_event event after event.
InitBusOnly ==
  /\ active_connections = EmptyRegistry
  /\ wsState = [w \in Observers |-> "new"]
  /\ wsCampaign = [w \in Observers |-> Run]
  /\ bc = [c \in Campaigns |-> BcIdle]
  /\ NoPipeline /\ InitAux
  /\ access_token = 0 /\ refresh_token = 0 /\ client_id = FALSE
  /\ cached_user_urn = 0
  /\ call = [c \in Campaigns |-> CallIdle]

\* The pipeline of campaign c: await ws_manager.broadcast_event(event), up
\* to the first send, or to the end when there is none.
Broadcast(c) ==
  /\ bc[c].st = "idle"
  /\ LET r == BroadcastBegin(active_connections, c)
     IN  /\ active_connections' = r.reg
         /\ bc' = [bc EXCEPT ![c] = r.bc]
  /\ UNCHANGED <<wsState, wsCampaign, credVars, call, pipeVars, auxVars>>

\* broadcast_event returned, or raised, to the pipeline of campaign c.
BroadcastEnd(c) ==
  /\ bc[c].st \in {"returned", "raised"}
  /\ bc' = [bc EXCEPT ![c] = BcIdle]
  /\ UNCHANGED <<active_connections, wsState, wsCampaign, credVars, call,
                 pipeVars, auxVars>>

NextBus ==
  \/ \E w \in Observers, c \in Campaigns : Connect(w, c)
  \/ Severed < MaxSevered /\ \E w \in Observers : ClientDrop(w)
  \/ Severed < MaxSevered /\ \E w \in Observers : ClientStall(w)
  \/ \E w \in Observers : HandlerDisconnect(w)
  \/ \E c \in Campaigns : Broadcast(c)
  \/ \E c \in Campaigns : SendComplete(c)
  \/ \E c \in Campaigns : BroadcastEnd(c)

SpecBus == InitBusOnly /\ [][NextBus]_vars

\* The event loop resumes a coroutine whose await is over: a send_text that
\* the transport has ended, and the caller of a broadcast_event that ended.
FairnessBus ==
  \A c \in Campaigns :
    /\ WF_vars(SendComplete(c))
    /\ WF_vars(BroadcastEnd(c))

FairBus == SpecBus /\ FairnessBus

(* ------------- the events of one campaign, in their order ----------- *)

\* Every stage, and run_campaign itself, calls
\*     await ws_manager.broadcast_event(AgentEvent(...))
\* so the coroutine of the campaign makes its next call when the one before
\* has returned or raised.  Here the calls of campaign Run are numbered and
\* each has its own record, so that two of them could be in progress.

\* Mutant of Awaited: the call is started as a task and not awaited.
Awaited_FireAndForget(calls) == TRUE

\* await: the calls made so far have ended.
Awaited(calls) == \A e \in DOMAIN calls : calls[e].st # "sending"

\* The calls that iterate the list of the campaign go on with the emptied
\* list when the step from reg to new deleted the key.
Detach(calls, reg, new) ==
  [e \in DOMAIN calls |->
     IF calls[e].st = "sending" /\ Run \in DOMAIN reg /\ Run \notin DOMAIN new
       THEN [calls[e] EXCEPT !.detached = TRUE]
       ELSE calls[e]]

InitOrder ==
  /\ active_connections = EmptyRegistry
  /\ wsState = [w \in Observers |-> "new"]
  /\ wsCampaign = [w \in Observers |-> Run]
  /\ bc = [c \in Campaigns |-> BcIdle]
  /\ NoPipeline /\ InitAux
  /\ access_token = 0 /\ refresh_token = 0 /\ client_id = FALSE
  /\ cached_user_urn = 0
  /\ call = [c \in Campaigns |-> CallIdle]

\* The coroutine of the campaign publishes its next event: broadcast_event
\* up to its first send, or to its end when nobody is registered.
Publish ==
  /\ Len(feed.calls) < MaxEvents
  /\ Awaited(feed.calls)
  /\ LET r == BroadcastBegin(active_connections, Run)
     IN  /\ active_connections' = r.reg
         /\ feed' = [feed EXCEPT !.calls = Append(@, r.bc)]
  /\ UNCHANGED <<wsState, wsCampaign, bc, credVars, call, pipeVars, piece,
                 payload, unsub, rt>>

\* The call of event e resumes from await ws.send_text(payload): the
\* connection got the event when the send returned.
Deliver(e) ==
  /\ e \in DOMAIN feed.calls
  /\ feed.calls[e].st = "sending"
  /\ LET w    == feed.calls[e].cur
         sent == wsState[w] = "open"
         r    == BroadcastStep(active_connections,
                               AfterSend(feed.calls[e], sent), Run)
     IN  /\ active_connections' = r.reg
         /\ feed' =
              [calls |-> [Detach(feed.calls, active_connections, r.reg)
                            EXCEPT ![e] = r.bc],
               log   |-> IF sent
                           THEN [feed.log EXCEPT ![w] = Append(@, e)]
                           ELSE feed.log]
  /\ UNCHANGED <<wsState, wsCampaign, bc, credVars, call, pipeVars, piece,
                 payload, unsub, rt>>

\* websocket_endpoint: except WebSocketDisconnect:
\*     ws_manager.disconnect(websocket, campaign_id)
Leave(w) ==
  /\ wsState[w] = "dropped"
  /\ LET r == disconnect(active_connections, w, wsCampaign[w])
     IN  /\ active_connections' = r.reg
         /\ feed' = [feed EXCEPT
                       !.calls = Detach(@, active_connections, r.reg)]
  /\ wsState' = [wsState EXCEPT ![w] = "closed"]
  /\ UNCHANGED <<wsCampaign, bc, credVars, call, pipeVars, piece, payload,
                 unsub, rt>>

NextOrder ==
  \/ \E w \in Observers : Connect(w, Run)
  \/ Severed < MaxSevered /\ \E w \in Observers : ClientDrop(w)
  \/ \E w \in Observers : Leave(w)
  \/ Publish
  \/ \E e \in 1 .. MaxEvents : Deliver(e)

SpecOrder == InitOrder /\ [][NextOrder]_vars

(* ------------------- disconnect, called twice ------------------------ *)

\* The lists a registry can hold: connect appends a WebSocket object once,
\* and disconnect deletes the key of a list it has emptied.
Lists ==
  {l \in UNION {[1 .. n -> Observers] : n \in 1 .. NumObservers} :
     \A j, k \in DOMAIN l : j # k => l[j] # l[k]}

\* The registries: a connection is in the list of one campaign.
Registries ==
  UNION {{r \in [D -> Lists] :
            \A c, d \in D : c # d => Range(r[c]) \cap Range(r[d]) = {}} :
         D \in SUBSET Campaigns}

\* The campaign under which w is registered, if any.
CampaignOf(reg, w) ==
  IF \E c \in DOMAIN reg : w \in Range(reg[c])
    THEN CHOOSE c \in DOMAIN reg : w \in Range(reg[c])
    ELSE Run

InitUnsub ==
  /\ active_connections \in Registries
  /\ wsState = [w \in Observers |->
                  IF \E c \in DOMAIN active_connections :
                       w \in Range(active_connections[c])
                    THEN "open" ELSE "new"]
  /\ wsCampaign = [w \in Observers |-> CampaignOf(active_connections, w)]
  /\ bc = [c \in Campaigns |-> BcIdle]
  /\ access_token = 0 /\ refresh_token = 0 /\ client_id = FALSE
  /\ cached_user_urn = 0
  /\ call = [c \in Campaigns |-> CallIdle]
  /\ NoPipeline /\ InitAux

\* ws_manager.disconnect(w, c): the first call is for a connection that is
\* registered under c, or for a campaign that has no key; the second call
\* repeats the first.
Unsubscribe(w, c) ==
  /\ unsub.calls < 2 /\ ~unsub.raised
  /\ IF unsub.calls = 0
       THEN c \in DOMAIN active_connections
              => w \in Range(active_connections[c])
       ELSE w = unsub.ws /\ c = unsub.campaign
  /\ LET r == disconnect(active_connections, w, c)
     IN  /\ active_connections' = r.reg
         /\ unsub' = [calls    |-> unsub.calls + 1,
                      ws       |-> w,
                      campaign |-> c,
                      raised   |-> r.raised,
                      first    |-> IF unsub.calls = 0 THEN r.reg
                                                      ELSE unsub.first]
  /\ UNCHANGED <<wsState, wsCampaign, bc, credVars, call, pipeVars, piece,
                 payload, rt, feed>>

NextUnsub == \E w \in Observers, c \in Campaigns : Unsubscribe(w, c)

SpecUnsub == InitUnsub /\ [][NextUnsub]_vars

(* ------------- a CampaignResponse written and read back -------------- *)

\* The strings tried: empty, plain, with a quote, with a backslash before
\* an n, with a newline, and the word null.
RtStrs ==
  {<<>>, <<"a">>, <<"\"", "a">>, <<"\\", "n">>, <<"\n">>, <<"null">>}

RtPiece ==
  [platform |-> "linkedin", content |-> <<"a">>, hashtags |-> <<>>,
   scheduled_time |-> <<>>, published |-> FALSE]

\* The pieces tried: each field takes its other values.
RtPieces ==
  {RtPiece,
   [RtPiece EXCEPT !.content = <<"\\", "n", "\"">>],
   [RtPiece EXCEPT !.content = <<"\n">>, !.published = TRUE],
   [RtPiece EXCEPT !.hashtags = <<<<"x">>, <<>>>>],
   [RtPiece EXCEPT !.hashtags = <<<<"\"">>>>, !.scheduled_time = <<<<"t">>>>],
   [RtPiece EXCEPT !.scheduled_time = <<<<>>>>, !.published = TRUE]}

RtResponses ==
  [campaign_id    : {<<"x">>, <<"y">>},
   topic          : {<<"a">>, <<"\"", "a">>},
   status         : {<<"completed">>, <<"failed">>},
   content        : UNION {[1 .. n -> RtPieces] : n \in 0 .. MaxPlatforms},
   trend_insights : {<<>>} \cup {<<str>> : str \in RtStrs}]

InitRoundTrip ==
  /\ InitBus /\ NoPipeline
  /\ access_token = 0 /\ refresh_token = 0 /\ client_id = FALSE
  /\ cached_user_urn = 0
  /\ call = [c \in Campaigns |-> CallIdle]
  /\ piece = NoPiece /\ payload = NoPayload /\ unsub = NoUnsub
  /\ feed = NoFeed
  /\ \E r \in RtResponses, conn \in BOOLEAN :
       rt = [NoRoundTrip EXCEPT !.orig = r, !.connected = conn]

\* json_str = resp.model_dump_json()
DumpJson ==
  /\ rt.path = "none"
  /\ rt' = [rt EXCEPT !.path = "json", !.json = model_dump_json(rt.orig)]
  /\ UNCHANGED <<busVars, credVars, call, pipeVars, piece, payload, unsub,
                 feed>>

\* restored = CampaignResponse.model_validate_json(json_str)
ValidateJson ==
  /\ rt.path = "json" /\ rt.got = "pending"
  /\ LET r == model_validate_json(rt.json)
     IN  rt' = [rt EXCEPT !.got = IF r.ok THEN "value" ELSE "invalid",
                          !.restored = IF r.ok THEN <<r.v>> ELSE <<>>]
  /\ UNCHANGED <<busVars, credVars, call, pipeVars, piece, payload, unsub,
                 feed>>

\* await redis_service.store_campaign(result)
StoreCampaign ==
  /\ rt.path = "none"
  /\ rt' = [rt EXCEPT !.path = "redis",
                       !.store = store_campaign(rt.store, rt.connected, rt.orig)]
  /\ UNCHANGED <<busVars, credVars, call, pipeVars, piece, payload, unsub,
                 feed>>

\* await redis_service.get_campaign(campaign_id)
GetCampaign(id) ==
  /\ rt.path = "redis" /\ rt.got = "pending"
  /\ LET r == get_campaign(rt.store, rt.connected, id)
     IN  rt' = [rt EXCEPT !.got = IF r.ok THEN "value"
                                  ELSE IF rt.connected
                                         /\ CampaignKey(id) \in DOMAIN rt.store
                                    THEN "invalid" ELSE "none",
                          !.restored = IF r.ok THEN <<r.v>> ELSE <<>>]
  /\ UNCHANGED <<busVars, credVars, call, pipeVars, piece, payload, unsub,
                 feed>>

NextRoundTrip ==
  \/ DumpJson
  \/ ValidateJson
  \/ StoreCampaign
  \/ GetCampaign(rt.orig.campaign_id)

SpecRoundTrip == InitRoundTrip /\ [][NextRoundTrip]_vars

(* ---------------- the text of a post, on its own --------------------- *)

\* The characters of the bodies, and the body of n characters.
Glyphs == <<"a", "b", "c">>
Body(n) == [k \in 1 .. n |-> Glyphs[(k % 3) + 1]]

\* Lengths at both ends, and around the limit.
BodyLens ==
  {0, 1} \cup ((TextLimit - Slack) .. (TextLimit + 1)) \cup {LongBody}

\* hashtags: list[str]; a hashtag may be the empty string.
Tags == {<<>>, <<"x">>, <<"A", "I">>}
HashtagLists == UNION {[1 .. n -> Tags] : n \in 0 .. MaxTags}

Pieces == [content : {Body(n) : n \in BodyLens}, hashtags : HashtagLists]

\* _publish_linkedin(piece) was called with any of the pieces.
InitText ==
  /\ InitBus /\ NoPipeline
  /\ access_token \in {0, 1}
  /\ refresh_token = 0 /\ client_id = FALSE /\ cached_user_urn = 0
  /\ call = [c \in Campaigns |-> CallIdle]
  /\ piece \in Pieces
  /\ payload = NoPayload
  /\ unsub = NoUnsub
  /\ rt = NoRoundTrip
  /\ feed = NoFeed

\* _publish_linkedin from its first line to payload = {...}: without an
\* access token it returns before the text is built.
BuildPayload ==
  /\ access_token # 0
  /\ ~payload.built
  /\ payload' = [built |-> TRUE,
                 commentary |-> Commentary(piece.content, piece.hashtags)]
  /\ UNCHANGED <<busVars, credVars, call, pipeVars, piece, unsub, rt, feed>>

NextText == BuildPayload

SpecText == InitText /\ [][NextText]_vars

(* ------------------------------ claims ------------------------------- *)

\* Positions of the events tagged final.
Finals == {k \in DOMAIN events : events[k].final}

Returned == pc = "returned"

\* C1: run_campaign never raises: whatever the stages and the observers do,
\* no exception leaves run_campaign.  (Stated as the claim states it; the
\* code violates it.)
C1_NeverRaises == pc # "raised"

\* C2: if trend_agent.run fails, the writer and the publisher are never
\* started: every event of the campaign is one of the trend agent, no
\* publish call is made, and the result returned has status failed and an
\* empty content list.
C2_ResearchFailure ==
  trace.failed = "trend_agent" =>
    /\ pc \in {"t_fail_bc", "returned", "raised"}
    /\ \A k \in DOMAIN events : events[k].agent = "trend_agent"
    /\ call[Run].st = "idle" /\ trace.outcome = <<>> /\ ~trace.posted
    /\ Returned => result.status = "failed" /\ result.content = <<>>

C2_Witness ==
  trace.failed = "trend_agent" /\ Returned /\ Len(request.platforms) > 0

\* C3: if the trend agent succeeded and writer_agent.run fails, the
\* publisher is never started, and the result returned has status failed,
\* an empty content list and the brief as its diagnostic.
C3_DraftFailure ==
  trace.failed = "writer_agent" =>
    /\ pc \in {"w_fail_bc", "returned", "raised"}
    /\ brief \in Briefs
    /\ \A k \in DOMAIN events : events[k].agent # "publisher_agent"
    /\ call[Run].st = "idle" /\ trace.outcome = <<>> /\ ~trace.posted
    /\ Returned =>
         result = [status |-> "failed", content |-> <<>>,
                   trend_insights |-> brief]

\* The writer failed on its second platform, the first piece drafted.
C3_Witness ==
  trace.failed = "writer_agent" /\ Returned /\ Len(content_pieces) = 1

\* C4: if publisher_agent.run fails part-way, the result returned has
\* status failed, the brief as diagnostic, and all drafted pieces as
\* content: a piece whose publish call had returned true before the failure
\* has its flag true, every other piece has it false.
C4_PublishFailure ==
  (trace.failed = "publisher_agent" /\ Returned) =>
    /\ result.status = "failed"
    /\ result.trend_insights = brief /\ brief \in Briefs
    /\ Len(result.content) = Len(request.platforms)
    /\ \A k \in DOMAIN result.content :
         /\ result.content[k].platform = request.platforms[k]
         /\ result.content[k].published =
              (k <= Len(trace.outcome) /\ trace.outcome[k])

\* The publisher failed after it had published the first of two pieces.
C4_Witness ==
  /\ trace.failed = "publisher_agent" /\ Returned
  /\ Len(result.content) = 2
  /\ result.content[1].published /\ ~result.content[2].published

\* C5: the status returned is completed or failed; it is completed only
\* when no stage failed, and then the content holds one piece for each
\* platform of the request.
C5_Status ==
  Returned =>
    /\ result.status \in {"completed", "failed"}
    /\ result.status = "completed" =>
         /\ trace.failed = "none"
         /\ Len(result.content) = Len(request.platforms)
         /\ \A k \in DOMAIN result.content :
              result.content[k].platform = request.platforms[k]

C5_Witness ==
  Returned /\ result.status = "completed" /\ Len(result.content) = 2

\* C6: a run that returns has emitted exactly one event tagged final, and
\* it is its last event; that event is the publisher's completed event
\* exactly when the result is completed, and otherwise a failed event of
\* the stage that failed.
C6_OneFinalEvent ==
  Returned =>
    LET last == events[Len(events)]
    IN  /\ Cardinality(Finals) = 1
        /\ last.final
        /\ (last.status = "completed" /\ last.agent = "publisher_agent")
             <=> result.status = "completed"
        /\ result.status # "completed" =>
             last.status = "failed" /\ last.agent = trace.failed

\* A campaign whose publisher reported a piece as failed and then failed
\* itself.
C6_Witness ==
  /\ Returned /\ result.status = "failed"
  /\ trace.failed = "publisher_agent"
  /\ \E k \in DOMAIN events :
       events[k].status = "failed" /\ ~events[k].final

C8_BatchContinues ==
  (Returned /\ request.auto_publish /\ trace.failed = "none") =>
    /\ result.status = "completed"
    /\ Len(trace.outcome) = Len(request.platforms)
    /\ Len(result.content) = Len(request.platforms)
    /\ \A k \in DOMAIN result.content :
         result.content[k].published = trace.outcome[k]

\* The first piece failed; the second was still attempted, and published.
C8_Witness ==
  /\ Returned /\ result.status = "completed"
  /\ trace.outcome = <<FALSE, TRUE>>

\* C9: a publish call in which a request was answered 401, the refresh
\* succeeded and the next publish request was answered with a success
\* status (a 2xx) has returned true.  (Stated as the claim states it; the
\* code violates it when the status is a 2xx other than 200 and 201.)
C9_RefreshThenSuccess ==
  \A c \in Campaigns :
    call[c].after \in {"created", "accepted"} =>
      call[c].st = "done" /\ call[c].result

\* C10: a publish call in which a request was answered 401 and the refresh
\* then failed has returned false, on whichever attempt the 401 came: the
\* call is over, so it makes no further publish request.
C10_RefreshFailure ==
  \A c \in Campaigns :
    call[c].refresh = "failed" =>
      /\ call[c].st = "done" /\ ~call[c].result
      /\ call[c].posts = call[c].attempt

\* The 401 came on the third attempt.
C10_Witness ==
  call[Run].refresh = "failed" /\ call[Run].attempt = 3

\* C11: a 403 ends the publish call at once with result false: while the
\* latest answer is a 403 the call is over, so no publish request, refresh
\* or retry delay follows it, and the requests made are those of the
\* attempts taken: one when the 403 is the first answer.
C11_ForbiddenIsTerminal ==
  \A c \in Campaigns :
    call[c].last = "403" =>
      /\ call[c].st = "done" /\ ~call[c].result
      /\ call[c].posts = call[c].attempt
      /\ call[c].refreshes = 0 => call[c].refresh = "none"

\* The first answer is a 403.
C11_Witness ==
  call[Run].last = "403" /\ call[Run].posts = 1 /\ call[Run].st = "done"

\* C12: no publish call makes more than max_retries publish requests; a
\* call whose publish requests were all answered with a retryable failure
\* has made exactly max_retries of them when it returns, and returns false;
\* and every publish call that was started returns.
C12_BoundedRetries ==
  /\ [](\A c \in Campaigns :
          /\ call[c].posts <= max_retries
          /\ (call[c].st = "done" /\ call[c].posts > 0 /\ call[c].retryOnly)
               => (call[c].posts = max_retries /\ ~call[c].result))
  /\ \A c \in Campaigns :
       (call[c].st # "idle") ~> (call[c].st = "done")

\* Three requests, each answered with a 5xx or a transport error.
C12_Witness ==
  /\ call[Run].st = "done" /\ call[Run].retryOnly
  /\ call[Run].posts = max_retries

\* C13: the publish request made after a 401 and a successful refresh does
\* not consume a retry slot: a call that was refreshed, made a request
\* after the refresh, and whose answers after the refresh were all failures
\* to retry, has made 1 + max_retries publish requests when it returns.
\* (Stated as the claim states it; the code violates it.)
C13_RefreshKeepsBudget ==
  \A c \in Campaigns :
    ( /\ call[c].st = "done" /\ call[c].refresh = "ok"
      /\ call[c].after # "none"
      /\ ~call[c].accepted /\ call[c].last # "403" )
    => call[c].posts = 1 + max_retries

\* C14: _refresh_token is called at most once in a publish call; a 401 that
\* answers a request made after the refresh is a failure like any other:
\* the loop retries, or is exhausted and returns false.
C14_OneRefresh ==
  \A c \in Campaigns :
    /\ call[c].refreshes <= 1
    /\ (call[c].after # "none" /\ call[c].last = "401") =>
         /\ call[c].refreshes = 1
         /\ call[c].st \in {"post", "done"}
         /\ call[c].st = "done" =>
              (~call[c].result /\ call[c].attempt = max_retries)

\* A second 401, after the refresh, with an attempt left: it is retried.
C14_Witness ==
  /\ call[Run].after # "none" /\ call[Run].last = "401"
  /\ call[Run].st = "post"

\* C15: the answer to a publish request is classed as the wire contract
\* says: a 2xx makes the call return true, a 401 before any refresh starts
\* the refresh, a 403 ends the call with false, anything else is retried.
\* (Stated as the claim states it; the code violates it for the 2xx other
\* than 200 and 201.)
C15_Classification ==
  \A c \in Campaigns :
    /\ call[c].last = "2xx" => (call[c].st = "done" /\ call[c].result)
    /\ (call[c].last = "401" /\ call[c].after = "none") =>
         call[c].refreshes = 1
    /\ call[c].last = "403" => (call[c].st = "done" /\ ~call[c].result)
    /\ call[c].last = "other" =>
         (~call[c].result /\ call[c].st \in {"post", "done"})

\* C16: once a publish request was answered with a 2xx the call is over
\* with result true: at most one request of a call is accepted, and it is
\* the last one.  (Stated as the claim states it; the code violates it.)
C16_AcceptedOnce ==
  \A c \in Campaigns :
    /\ call[c].accepts <= 1
    /\ call[c].accepts = 1 =>
         (call[c].st = "done" /\ call[c].result /\ call[c].last = "2xx")

\* C17: when _get_user_urn returns None, at the start of the call or after
\* a refresh, the call is over with result false, and so sends no publish
\* request afterwards.  (Stated as the claim states it; the code violates
\* it for the resolution that follows a refresh.)
C17_NoIdentityNoPublish ==
  \A c \in Campaigns :
    call[c].urnFailed => (call[c].st = "done" /\ ~call[c].result)

\* The length of the body, a blank line and the trailer of p together; the
\* trailer has a '#' for each hashtag and a space between two.
RECURSIVE TagsLen(_)
TagsLen(h) == IF h = <<>> THEN 0 ELSE 1 + Len(Head(h)) + TagsLen(Tail(h))

CombinedLen(p) ==
  IF p.hashtags = <<>> THEN Len(p.content)
  ELSE Len(p.content) + 2 + TagsLen(p.hashtags) + Len(p.hashtags) - 1

\* The j-th character of the trailer of hashtag list h.
RECURSIVE TrailerChar(_, _)
TrailerChar(h, j) ==
  IF j = 1 THEN "#"
  ELSE IF j <= 1 + Len(Head(h)) THEN Head(h)[j - 1]
  ELSE IF j = 2 + Len(Head(h)) THEN " "
  ELSE TrailerChar(Tail(h), j - 2 - Len(Head(h)))

\* The k-th character of the combined text of p.
CombinedChar(p, k) ==
  IF k <= Len(p.content) THEN p.content[k]
  ELSE IF k <= Len(p.content) + 2 THEN "\n"
  ELSE TrailerChar(p.hashtags, k - Len(p.content) - 2)

\* C18: the text transmitted is the first min(L, 3000) characters of the
\* combined text of length L (the body, a blank line, the '#'-prefixed
\* hashtags joined by spaces; the body alone without hashtags), character
\* by character, so it is never longer than 3000.
C18_Truncation ==
  payload.built =>
    LET L == CombinedLen(piece)
        n == IF L < TextLimit THEN L ELSE TextLimit
    IN  /\ Len(payload.commentary) = n
        /\ Len(payload.commentary) <= TextLimit
        /\ \A k \in 1 .. n : payload.commentary[k] = CombinedChar(piece, k)

\* The body fits and the trailer does not: the cut falls inside the trailer.
C18_Witness ==
  /\ payload.built
  /\ Len(piece.content) + 2 < TextLimit
  /\ CombinedLen(piece) > TextLimit
  /\ Len(piece.hashtags) = 2

\* C19: with auto-publish off the Publish stage never starts a publish
\* call, so it sends no identity, publish or refresh request; no piece is
\* flagged published; the pieces are handed to the similarity store one by
\* one in order, each at most once; and when the stage has returned, each
\* piece was handed over exactly once and the list is the writer's list.
C19_DraftMode ==
  (~request.auto_publish /\ pc # "none") =>
    /\ call[Run] = CallIdle
    /\ ~trace.posted /\ trace.outcome = <<>>
    /\ \A k \in DOMAIN content_pieces : ~content_pieces[k].published
    /\ \A k \in DOMAIN trace.stored : trace.stored[k] = k
    /\ (pc = "final_bc" \/ (Returned /\ result.status = "completed")) =>
         /\ trace.stored = [k \in 1 .. Len(request.platforms) |-> k]
         /\ content_pieces =
              [k \in 1 .. Len(request.platforms) |->
                 NewPiece(request.platforms[k])]

\* A draft campaign of two pieces has completed.
C19_Witness ==
  /\ ~request.auto_publish
  /\ Returned /\ result.status = "completed"
  /\ Len(trace.stored) = 2

\* C20: a broadcast_event call for a campaign that has no key in the
\* registry returns at once without raising: it makes no send, to the
\* observers of no campaign, and the registry, the connections and the
\* broadcasts of the other campaigns are as they were.
C20_NoSubscriberNoOp ==
  [][\A c \in Campaigns :
       ( /\ bc[c].st = "idle" /\ bc'[c].st # "idle"
         /\ c \notin DOMAIN active_connections )
       => /\ bc'[c] = [BcIdle EXCEPT !.st = "returned"]
          /\ active_connections' = active_connections
          /\ wsState' = wsState
          /\ \A d \in Campaigns \ {c} : bc'[d] = bc[d]]_vars

\* A broadcast with no send has returned for a campaign nobody watches,
\* while the other campaign has an observer.
C20_Witness ==
  \E c \in Campaigns :
    /\ bc[c].st = "returned" /\ bc[c].sends = 0
    /\ c \notin DOMAIN active_connections
    /\ DOMAIN active_connections # {}

\* C21: disconnect is idempotent: a second disconnect(ws, campaign) after a
\* first does not raise and leaves the registry as the first call left it,
\* whether or not other connections of the campaign are still registered.
\* (Stated as the claim states it; the code violates it when others are.)
C21_Idempotent ==
  unsub.calls = 2 => (~unsub.raised /\ active_connections = unsub.first)

\* C22: every broadcast_event call ends, also when the transport of an
\* observer never acknowledges a send: a call that is suspended in a send
\* is resumed.  (Stated as the claim states it; the code violates it.)
C22_AlwaysReturns ==
  \A c \in Campaigns : (bc[c].st = "sending") ~> (bc[c].st # "sending")

\* Connection w is in the list of campaign c.
Registered(w, c) ==
  c \in DOMAIN active_connections /\ w \in Range(active_connections[c])

\* C23: when a send of a broadcast_event call failed and the call has
\* returned, the connections whose send failed are out of the registry, and
\* every other connection that was registered for the campaign when the call
\* was made and is still open is registered and was sent the event; and no
\* step of a broadcast changes the list of another campaign.  (Stated as the
\* claim states it; the code violates it.)
C23_Eviction ==
  /\ [](\A c \in Campaigns :
          (bc[c].st = "returned" /\ bc[c].dead # <<>>) =>
            /\ \A w \in Range(bc[c].dead) : ~Registered(w, c)
            /\ \A w \in Range(bc[c].subs0) \ Range(bc[c].dead) :
                 wsState[w] = "open" =>
                   (Registered(w, c) /\ w \in bc[c].got))
  /\ [][\A c \in Campaigns :
         (bc'[c] # bc[c] /\ wsState' = wsState) =>
           \A d \in Campaigns \ {c} :
             /\ d \in DOMAIN active_connections
                  <=> d \in DOMAIN active_connections'
             /\ d \in DOMAIN active_connections =>
                  active_connections'[d] = active_connections[d]]_vars

\* C27: a connection receives an event only if it was registered for the
\* campaign when broadcast_event was called with the event, and it is sent
\* the event at most once.  (Stated as the claim states it; the code
\* violates it for a connection that registers while the call is suspended
\* in a send.)
C27_AtMostOnce ==
  \A c \in Campaigns :
    /\ \A w \in bc[c].got : w \in Range(bc[c].subs0)
    /\ \A j, k \in DOMAIN bc[c].to : j # k => bc[c].to[j] # bc[c].to[k]

\* C24: an observer that disconnects while the campaign runs tears down
\* its own subscription only: no stage fails because broadcast_event
\* raised, no exception of the bus leaves run_campaign, and every observer
\* whose connection is open is registered.  (Stated as the claim states it;
\* the code violates it.)
C24_DisconnectIsLocal ==
  /\ trace.cause # "bus"
  /\ pc # "raised"
  /\ \A w \in WS : wsState[w] = "open" => Registered(w, Run)

\* C26: no stage emits a failed event: every failed event of a campaign is
\* one of run_campaign and is tagged final, and a campaign whose result is
\* completed has no failed event.  (Stated as the claim states it; the code
\* violates it.)
C26_NoStageFailedEvent ==
  /\ \A k \in DOMAIN events : events[k].status = "failed" => events[k].final
  /\ (Returned /\ result.status = "completed") =>
       \A k \in DOMAIN events : events[k].status # "failed"

\* C29: while no access token is configured a publish call returns false
\* at once: it sends no identity, publish or refresh request, and no step
\* changes the credential state or the pieces.
C29_NoToken ==
  /\ [](access_token = 0 =>
          \A c \in Campaigns : call[c] \in {CallIdle, Done(CallIdle, FALSE)})
  /\ [][access_token = 0 =>
         UNCHANGED <<credVars, content_pieces, piece>>]_vars

\* A call has returned with no access token, though a refresh token and a
\* client id are configured.
C29_Witness ==
  /\ access_token = 0 /\ refresh_token # 0 /\ client_id
  /\ call[Run] = Done(CallIdle, FALSE)

\* C30: a publish call whose refresh succeeded makes at least one publish
\* request after it, and the requests it makes after it carry the new
\* access token.  (Stated as the claim states it; the code violates it when
\* the 401 answers the last attempt.)
C30_RetryAfterRefresh ==
  \A c \in Campaigns :
    /\ (call[c].st = "done" /\ call[c].refresh = "ok") =>
         call[c].after # "none"
    /\ (call[c].st = "post" /\ call[c].refresh = "ok") =>
         call[c].hdrTok = access_token

\* C25: the refreshes of concurrent publish calls exclude each other: at
\* most one call is inside _refresh_token at a time, and the cached
\* identity is never one that was resolved with an access token that has
\* been replaced since.  (Stated as the claim states it; the code violates
\* it.)
C25_RefreshExclusive ==
  /\ Cardinality({c \in Campaigns : call[c].st = "refresh_wait"}) <= 1
  /\ cached_user_urn \in {0, access_token}

C31_NoEmptyEntry ==
  \A c \in DOMAIN active_connections : active_connections[c] # <<>>

\* A broadcast whose send failed has removed the last connection of its
\* campaign and the key with it, after the handler of another connection of
\* the campaign had removed that one; the other campaign keeps its key.
C31_Witness ==
  \E c \in Campaigns :
    /\ bc[c].st = "returned" /\ bc[c].dead # <<>>
    /\ c \notin DOMAIN active_connections
    /\ \E w \in Observers : wsState[w] = "closed" /\ wsCampaign[w] = c
    /\ DOMAIN active_connections # {}

\* C32: a connect or a disconnect that falls into a suspended broadcast does
\* not corrupt it: the call does not raise, and every connection that was
\* registered for the campaign when the call was made and is registered when
\* it ends was sent the event exactly once.  (Stated as the claim states it;
\* the code violates it.)
C32_NoCorruption ==
  \A c \in Campaigns :
    bc[c].st \in {"returned", "raised"} =>
      /\ bc[c].st = "returned"
      /\ \A w \in Range(bc[c].subs0) :
           Registered(w, c) =>
             Cardinality({k \in DOMAIN bc[c].to : bc[c].to[k] = w}) = 1

\* C33: the events of one campaign reach every observer in the order in
\* which broadcast_event was called with them: the numbers of the events a
\* connection received are increasing, so an event published before another
\* is never received after it (nor twice).
C33_Order ==
  \A w \in Observers :
    \A j, k \in DOMAIN feed.log[w] :
      j < k => feed.log[w][j] < feed.log[w][k]

\* An observer that is still registered has received the first event and
\* then the second, though the handler of another observer, which had got
\* the first, removed that one between the two calls.
C33_Witness ==
  \E w, v \in Observers :
    /\ Registered(w, Run) /\ feed.log[w] = <<1, 2>>
    /\ wsState[v] = "closed" /\ feed.log[v] = <<1>>

\* C34: campaigns that run together do not touch each other's observers:
\* the connections a broadcast of campaign c calls send_text on, and those
\* in its list, connected to c; and a connection leaves the list of its
\* campaign only when it is no longer open, by its own handler or at the end
\* of a broadcast of its own campaign, never by a step of a broadcast of
\* another campaign.
C34_Isolation ==
  /\ [](\A c \in Campaigns :
          /\ \A w \in Range(bc[c].to) \cup bc[c].got : wsCampaign[w] = c
          /\ c \in DOMAIN active_connections =>
               \A w \in Range(active_connections[c]) : wsCampaign[w] = c)
  /\ [][\A d \in Campaigns : \A w \in Observers :
         (Registered(w, d) /\ ~Registered(w, d)') =>
           /\ wsState[w] # "open"
           /\ \/ wsState'[w] = "closed" /\ wsState[w] = "dropped"
              \/ /\ bc[d].st = "sending"
                 /\ bc'[d].st \in {"returned", "raised"}
                 /\ w \in Range(bc'[d].dead)
                 /\ \A c \in Campaigns \ {d} : bc'[c] = bc[c]]_vars

\* While a broadcast of one campaign is suspended in a send, one of its
\* observers having received the event, a broadcast of the other campaign
\* has removed an observer whose send failed.
C34_Witness ==
  \E c, d \in Campaigns :
    /\ c # d
    /\ bc[c].st = "sending" /\ bc[c].got # {}
    /\ \A w \in bc[c].got : Registered(w, c)
    /\ bc[d].st = "returned" /\ bc[d].dead # <<>>
    /\ d \notin DOMAIN active_connections

\* C35: a cached identity is one that was resolved with the access token
\* that is current, also when publish calls of different campaigns
\* interleave: the step that replaces the access token clears the cache, and
\* an identity that is cached is the identity of the current access token.
\* (Stated as the claim states it; the code violates it.)
C35_CacheCurrent ==
  /\ [][access_token' # access_token => cached_user_urn' = 0]_vars
  /\ [](cached_user_urn # 0 => cached_user_urn = access_token)

\* C36: _refresh_token sends its request only when a refresh token and a
\* client id are configured, and returns false without one otherwise; and
\* a refresh that returns false, for missing settings, a status other than
\* 200 or a transport error, leaves the access token, the refresh token and
\* the cached identity as they were when it was called: no step changes
\* them while the request is in flight, nor the step in which it fails.
C36_FailedRefreshFrame ==
  /\ [](\A c \in Campaigns :
          call[c].st = "refresh_wait" => (refresh_token # 0 /\ client_id))
  /\ [][\A c \in Campaigns :
         /\ (call[c].st = "post" /\ call'[c].refreshes > call[c].refreshes
               /\ ~(refresh_token # 0 /\ client_id)) =>
              /\ call'[c].st = "done" /\ ~call'[c].result
              /\ call'[c].refresh = "failed"
              /\ UNCHANGED credVars
         /\ (call[c].refresh # "failed" /\ call'[c].refresh = "failed") =>
              /\ UNCHANGED credVars
              /\ call'[c].st = "done" /\ ~call'[c].result
         /\ (call[c].st = "refresh_wait" /\ call'[c].refresh # "ok") =>
              UNCHANGED credVars]_vars

\* A call whose refresh request was answered with a failure has returned
\* false, and the access token and the cached identity are those a refresh
\* of an earlier call left.
C36_Witness ==
  /\ call[Run].st = "done" /\ call[Run].refresh = "failed"
  /\ ~call[Run].result
  /\ refresh_token # 0 /\ client_id
  /\ access_token = 2 /\ cached_user_urn = 2

\* The events a stage emitted itself (those of run_campaign are final).
StageEvent(e) == ~e.final

\* The events PublisherAgent.run emitted, in their order.
OfPublisher(e) == e.agent = "publisher_agent" /\ ~e.final
PublisherEvents == SelectSeq(events, OfPublisher)

\* Every completed event of a stage comes after a running event of that
\* stage for the same platform or piece.
RunningFirst ==
  \A k \in DOMAIN events :
    (StageEvent(events[k]) /\ events[k].status = "completed") =>
      \E j \in 1 .. (k - 1) :
        /\ events[j].agent = events[k].agent
        /\ events[j].idx = events[k].idx
        /\ events[j].status = "running"

\* No event of the writer before the completed event of the trend agent,
\* none of the publisher before the writer's completed event for the last
\* platform.
Downstream ==
  \A k \in DOMAIN events :
    /\ events[k].agent = "writer_agent" =>
         \E j \in 1 .. (k - 1) :
           events[j].agent = "trend_agent" /\ events[j].status = "completed"
    /\ (events[k].agent = "publisher_agent" /\ request.platforms # <<>>) =>
         \E j \in 1 .. (k - 1) :
           /\ events[j].agent = "writer_agent"
           /\ events[j].status = "completed"
           /\ events[j].idx = Len(request.platforms)

\* With auto_publish the publisher's events go piece by piece: running for
\* piece 1, completed or failed for piece 1, running for piece 2, ...
PieceByPiece ==
  request.auto_publish =>
    \A n \in DOMAIN PublisherEvents :
      IF n % 2 = 1
        THEN /\ PublisherEvents[n].status = "running"
             /\ PublisherEvents[n].idx = (n + 1) \div 2
        ELSE /\ PublisherEvents[n].status \in {"completed", "failed"}
             /\ PublisherEvents[n].idx = n \div 2

\* C37: the events of a campaign follow the stages: a stage emits running
\* before completed, the writer's events come after the trend agent's
\* completed event, the publisher's after the writer's completed event for
\* the last platform, and with auto_publish every piece gets one running
\* event and then one completed or failed event before the next piece.
\* (Stated as the claim states it; the code violates it when auto_publish is
\* off.)
C37_StageOrder == RunningFirst /\ Downstream /\ PieceByPiece

=============================================================================
